---- MODULE Spec2Model ----
(***************************************************************************)
(* The agent loop of app.py (run_agent), the search tool it dispatches to  *)
(* (tavily_search), the tool catalog bound to the model, and the part of   *)
(* the Streamlit script that starts a run and shows its result.            *)
(*                                                                         *)
(* The model provider, the search backend and the user are the             *)
(* environment: what they return is chosen with \E from small sets.        *)
(***************************************************************************)
EXTENDS Integers, Sequences, FiniteSets, TLC

VARIABLES
    tavily_available,   \* app.py:145, fixed at start-up
    pc,                 \* where the script is: idle, loop, invoke, dispatch, returned
    user_question,      \* the text input, as the script last read it
    search_button,      \* whether the button was pressed when the script last ran
    earlier,            \* whether a run of run_agent has ended before
    messages,           \* the conversation of the latest run
    iteration,          \* the round counter of run_agent
    response,           \* the response of the current round
    idx,                \* position in response.tool_calls (enumerate(..., 1))
    status,             \* what status_placeholder shows
    final_answer,       \* how run_agent ended: its return value, or an exception
    display,            \* the response section of the page
    trace,              \* the calls of the current run to its collaborators, in order
    varied              \* how much of the input variety budget the run has used

vars == <<tavily_available, pc, user_question, search_button, earlier, messages,
          iteration, response, idx, status, final_answer, display, trace, varied>>

-----------------------------------------------------------------------------
(* Bounds and input sets *)

\* The environment's deviations from the plain round (one well-formed search
\* call whose backend answers) that one run may contain.
MaxVaried == 2

\* What the user can have typed when the script runs.
Questions == {"", "What is the capital of France?", "Latest news on X"}

\* Final texts the model can give.
Texts == {"Paris is the capital of France.", "Here is what I found."}

\* Descriptions of a failed completion call, str(e).
CompletionErrors == {"Connection error."}

\* Description of a failure inside the search backend, str(e).
BackendError == "HTTP 500"

\* Description of the error the tool wrapper raises for arguments that do not
\* fit the schema of tavily_search(query: str).
ValidationError == "1 validation error for tavily_search"

\* The tool calls a response can carry: name and the argument keys supplied.
CallKinds ==
    { [name |-> "tavily_search", args |-> {"query"}],
      [name |-> "tavily_search", args |-> {}],
      [name |-> "web_browse",    args |-> {}] }

PlainCall == [name |-> "tavily_search", args |-> {"query"}]

-----------------------------------------------------------------------------
(* Constants and pure helpers of the program *)

max_iterations == 10

NoId == <<>>
NoResponse == [content |-> "", tool_calls |-> <<>>]
NoAnswer == [kind |-> "none", value |-> ""]

\* tools = [tavily_search] if tavily_available else []
tools == IF tavily_available THEN <<"tavily_search">> ELSE <<>>

\* The system message of run_agent.
system_message ==
    "You are a helpful AI assistant." \o
    (IF tavily_available
     THEN " When asked questions, search for the latest information and provide comprehensive answers based on what you find."
     ELSE " Note: You don't have access to real-time search. Provide answers based on your training data.")

SystemMessage(c) == [role |-> "system", content |-> c, tool_calls |-> <<>>, tool_call_id |-> NoId]
HumanMessage(c) == [role |-> "user", content |-> c, tool_calls |-> <<>>, tool_call_id |-> NoId]
AIMessage(r) == [role |-> "assistant", content |-> r.content, tool_calls |-> r.tool_calls, tool_call_id |-> NoId]
\* A slip: every tool message of a round gets the id of the round's first call.
ToolMessageFirstId(c, id) ==
    [role |-> "tool", content |-> c, tool_calls |-> <<>>, tool_call_id |-> <<id[1], 1>>]

ToolMessage(c, id) == [role |-> "tool", content |-> c, tool_calls |-> <<>>, tool_call_id |-> id]

\* str(x): a string is itself, the backend's result list is its printed form.
Str(x) == IF x.type = "str" THEN x.v ELSE "['" \o x.v[1] \o "']"

StrValue(s) == [type |-> "str", v |-> s]
ListValue(l) == [type |-> "list", v |-> l]

\* What TavilySearchResults(max_results=5).run(query) returns when it works.
SearchResults == ListValue(<<"hit">>)

ProgressText(n) == "Processing... Iteration " \o ToString(n)

ExhaustionMessage == "Max iterations reached without completing the agent task"

UnknownToolText(name) == "Unknown tool: " \o name

\* The tool wrapper validates the arguments against the signature
\* tavily_search(query: str) before the body runs.
ArgsValid(args) == "query" \in args

\* The responses the provider can give in round `round`: ids are assigned by
\* the provider, unique within the run.
WithIds(kinds, round) ==
    [i \in 1..Len(kinds) |->
        [id |-> <<round, i>>, name |-> kinds[i].name, args |-> kinds[i].args]]

\* The variety a list of tool calls uses: each call beyond the first, and
\* any call that is not the plain one.
Cost(kinds) ==
    (Len(kinds) - 1) + (IF \E i \in 1..Len(kinds) : kinds[i] # PlainCall THEN 1 ELSE 0)

CallLists == UNION { [1..n -> CallKinds] : n \in 1..(MaxVaried + 1) }

-----------------------------------------------------------------------------
(* The state after the script has been loaded: nothing asked yet *)

Init ==
    /\ tavily_available \in BOOLEAN
    /\ pc = "idle"
    /\ user_question = ""
    /\ search_button = FALSE
    /\ earlier = FALSE
    /\ messages = <<>>
    /\ iteration = 0
    /\ response = NoResponse
    /\ idx = 0
    /\ status = ""
    /\ final_answer = NoAnswer
    /\ display = ""
    /\ trace = <<>>
    /\ varied = 0

-----------------------------------------------------------------------------
(* The presentation: app.py:286-319 *)

\* A slip: the run starts whenever the button is pressed.
ShouldRunOnPress(q, pressed) == pressed

\* if search_button and user_question
ShouldRun(q, pressed) == pressed /\ q # ""

\* A slip: the conversation is kept from one question to the next.
InitialMessagesKept(q) ==
    messages \o <<SystemMessage(system_message), HumanMessage(q)>>

\* messages = [SystemMessage(...), HumanMessage(content=user_input)]
InitialMessages(q) == <<SystemMessage(system_message), HumanMessage(q)>>

\* The user has typed `q` and the script runs with the button pressed or not.
Submit(q, pressed) ==
    /\ pc = "idle"
    /\ user_question' = q
    /\ search_button' = pressed
    /\ IF ShouldRun(q, pressed)
       THEN \* run_agent(user_question, status_placeholder) up to the loop
            /\ pc' = "loop"
            /\ messages' = InitialMessages(q)
            /\ iteration' = 0
            /\ display' = ""
       ELSE \* run_agent is not called: this script run has no conversation
            /\ display' = (IF pressed THEN "Please enter a question" ELSE "")
            /\ messages' = <<>>
            /\ UNCHANGED <<pc, iteration>>
    /\ response' = NoResponse
    /\ idx' = 0
    /\ status' = ""
    /\ final_answer' = NoAnswer
    /\ trace' = <<>>
    /\ varied' = 0
    /\ UNCHANGED <<tavily_available, earlier>>

-----------------------------------------------------------------------------
(* run_agent: app.py:206-276 *)

\* A slip: the loop looks at what the status sink shows.
LoopGuardReadsStatus == iteration < max_iterations /\ status # ProgressText(3)

\* A slip: the loop runs one round too many.
LoopGuardOffByOne == iteration <= max_iterations

\* while iteration < max_iterations
LoopGuard == iteration < max_iterations

\* status_placeholder.empty(); return <value>, after the calls in `tr`.
\* `why` names the return statement: answer (241), error (272), exhausted (276).
ReturnValue(value, why, tr) ==
    /\ status' = ""
    /\ final_answer' = [kind |-> "return", value |-> value]
    /\ trace' = tr \o << <<"clear">>, <<"return", why>> >>
    /\ pc' = "returned"

\* A slip: the text returned is read from the variable of the round before.
ReturnAnswerStale(r, tr) == ReturnValue(response.content, "answer", tr)

\* if not response.tool_calls: ... return response.content
ReturnAnswer(r, tr) == ReturnValue(r.content, "answer", tr)

\* A slip: the error is swallowed and the loop goes on.
ExceptClauseContinue(e, tr) ==
    /\ trace' = tr
    /\ pc' = "loop"
    /\ UNCHANGED <<status, final_answer>>

\* A slip: the error is not caught and leaves run_agent.
ExceptClauseReraise(e, tr) ==
    /\ final_answer' = [kind |-> "raise", value |-> e]
    /\ trace' = Append(tr, <<"raise">>)
    /\ pc' = "returned"
    /\ UNCHANGED status

\* except Exception as e: ... return f"Error during processing: {str(e)}"
ExceptClause(e, tr) == ReturnValue("Error during processing: " \o e, "error", tr)

\* A slip: the return after the loop leaves the status sink as it is.
ReturnExhaustedNoClear ==
    /\ final_answer' = [kind |-> "return", value |-> ExhaustionMessage]
    /\ trace' = Append(trace, <<"return", "exhausted">>)
    /\ pc' = "returned"
    /\ UNCHANGED status

\* After the loop: return the fixed message.
ReturnExhausted == ReturnValue(ExhaustionMessage, "exhausted", trace)

\* The head of the loop: either one more round starts, or the budget is spent.
LoopHead ==
    /\ pc = "loop"
    /\ IF LoopGuard
       THEN /\ iteration' = iteration + 1
            /\ status' = ProgressText(iteration + 1)
            /\ trace' = Append(trace, <<"status", iteration + 1>>)
            /\ pc' = "invoke"
            /\ UNCHANGED final_answer
       ELSE /\ ReturnExhausted
            /\ UNCHANGED iteration
    /\ UNCHANGED <<tavily_available, user_question, search_button, earlier,
                   messages, response, idx, display, varied>>

\* What llm_with_tools.invoke(messages) can return in this round.
Responses ==
    { [content |-> t, tool_calls |-> <<>>] : t \in Texts }
    \cup
    { [content |-> "", tool_calls |-> WithIds(k, iteration)] :
        k \in { c \in CallLists : varied + Cost(c) <= MaxVaried } }

\* The completion call of this round, and how it ended.
Completed(r) == <<"complete", iteration, [kind |-> "return", value |-> r]>>
CompletionRaised(e) == <<"complete", iteration, [kind |-> "raise", value |-> e]>>

Used(r) ==
    IF r.tool_calls = <<>> THEN 0
    ELSE Cost([i \in 1..Len(r.tool_calls) |->
                 [name |-> r.tool_calls[i].name, args |-> r.tool_calls[i].args]])

\* A slip: the response is appended before it is looked at, so a final
\* answer enters the conversation too.
LLMRespondsAppendFirst(r) ==
    /\ pc = "invoke"
    /\ response' = r
    /\ messages' = Append(messages, AIMessage(r))
    /\ IF r.tool_calls = <<>>
       THEN /\ ReturnAnswer(r, Append(trace, Completed(r)))
            /\ UNCHANGED idx
       ELSE /\ idx' = 1
            /\ trace' = Append(trace, Completed(r))
            /\ pc' = "dispatch"
            /\ UNCHANGED <<status, final_answer>>
    /\ varied' = varied + Used(r)
    /\ UNCHANGED <<tavily_available, user_question, search_button, earlier,
                   iteration, display>>

\* response = llm_with_tools.invoke(messages) returned r: app.py:233-245
LLMResponds(r) ==
    /\ pc = "invoke"
    /\ response' = r
    /\ IF r.tool_calls = <<>>
       THEN /\ ReturnAnswer(r, Append(trace, Completed(r)))
            /\ UNCHANGED <<messages, idx>>
       ELSE /\ messages' = Append(messages, AIMessage(r))
            /\ idx' = 1
            /\ trace' = Append(trace, Completed(r))
            /\ pc' = "dispatch"
            /\ UNCHANGED <<status, final_answer>>
    /\ varied' = varied + Used(r)
    /\ UNCHANGED <<tavily_available, user_question, search_button, earlier,
                   iteration, display>>

\* llm_with_tools.invoke(messages) raised e: app.py:233, 269-272
LLMFails(e) ==
    /\ pc = "invoke"
    /\ ExceptClause(e, Append(trace, CompletionRaised(e)))
    /\ UNCHANGED <<tavily_available, user_question, search_button, earlier,
                   messages, iteration, response, idx, display, varied>>

\* A slip: the body without its check of tavily_available.
tavily_search_unguarded(id) ==
    { [kind |-> "return", value |-> SearchResults,
       calls |-> << <<"search", id>>, <<"backend", id>> >>, cost |-> 0],
      [kind |-> "return", value |-> StrValue("Search error: " \o BackendError),
       calls |-> << <<"search", id>>, <<"backend", id>> >>, cost |-> 1] }

\* A slip: without the credential the body returns nothing to read.
tavily_search_silent(id) ==
    IF ~tavily_available
    THEN { [kind |-> "return", value |-> StrValue(""),
            calls |-> << <<"search", id>> >>, cost |-> 0] }
    ELSE tavily_search_unguarded(id)

\* The body of tavily_search(query), app.py:154-168: the ways it can end.
\* Each is the value returned, the calls made, and the variety used.
tavily_search(id) ==
    IF ~tavily_available
    THEN { [kind |-> "return",
            value |-> StrValue("Tavily search is not available. Please set the TAVILY_API_KEY environment variable."),
            calls |-> << <<"search", id>> >>, cost |-> 0] }
    ELSE { [kind |-> "return", value |-> SearchResults,
            calls |-> << <<"search", id>>, <<"backend", id>> >>, cost |-> 0],
           [kind |-> "return", value |-> StrValue("Search error: " \o BackendError),
            calls |-> << <<"search", id>>, <<"backend", id>> >>, cost |-> 1] }

\* tavily_search.invoke(tool_call['args']), app.py:150-151, 255: the tool
\* wrapper checks the arguments against the signature, then runs the body.
ToolInvoke(call) ==
    IF ArgsValid(call.args)
    THEN { [o EXCEPT !.calls = << <<"invoke", call.id>> >> \o o.calls] :
             o \in tavily_search(call.id) }
    ELSE { [kind |-> "raise", value |-> StrValue(ValidationError),
            calls |-> << <<"invoke", call.id>> >>, cost |-> 0] }

\* if tool_call['name'] == 'tavily_search': ... else: ...   app.py:253-258
ToolOutcomes(call) ==
    IF call.name = "tavily_search"
    THEN ToolInvoke(call)
    ELSE { [kind |-> "return", value |-> StrValue(UnknownToolText(call.name)),
            calls |-> <<>>, cost |-> 0] }

\* A slip: the for loop stops one call short.
LastCallSkipsOne == idx >= Len(response.tool_calls) - 1

\* A slip: the for loop is left after its first pass.
LastCallEarly == TRUE

\* The for loop over response.tool_calls has no call left after this one.
LastCall == idx = Len(response.tool_calls)

\* One pass of the for loop over response.tool_calls: app.py:248-267
Dispatch ==
    /\ pc = "dispatch"
    /\ LET tool_call == response.tool_calls[idx]
           tr == Append(trace, <<"dispatch", tool_call>>)
       IN \E o \in ToolOutcomes(tool_call) :
            /\ varied + o.cost <= MaxVaried
            /\ varied' = varied + o.cost
            /\ IF o.kind = "raise"
               THEN /\ ExceptClause(Str(o.value), tr \o o.calls)
                    /\ UNCHANGED <<messages, idx>>
               ELSE /\ messages' = Append(messages,
                                          ToolMessage(Str(o.value), tool_call.id))
                    /\ trace' = tr \o o.calls
                    /\ idx' = idx + 1
                    /\ pc' = IF LastCall THEN "loop" ELSE "dispatch"
                    /\ UNCHANGED <<status, final_answer>>
    /\ UNCHANGED <<tavily_available, user_question, search_button, earlier,
                   iteration, response, display>>

\* The script after run_agent ended, app.py:305-315: the answer is streamed
\* to the page, or the exception is shown. The locals of the run are dead;
\* its conversation stays in memory until the next run builds its own.
Present ==
    /\ pc = "returned"
    /\ display' = (IF final_answer.kind = "return"
                   THEN final_answer.value
                   ELSE "Error: " \o final_answer.value)
    /\ pc' = "idle"
    /\ earlier' = TRUE
    /\ iteration' = 0
    /\ response' = NoResponse
    /\ idx' = 0
    /\ trace' = <<>>
    /\ varied' = 0
    /\ UNCHANGED <<tavily_available, user_question, search_button, messages,
                   status, final_answer>>

Next ==
    \/ \E q \in Questions, b \in BOOLEAN : Submit(q, b)
    \/ LoopHead
    \/ \E r \in Responses : LLMResponds(r)
    \/ \E e \in CompletionErrors : LLMFails(e)
    \/ Dispatch
    \/ Present

Spec == Init /\ [][Next]_vars

\* A step of run_agent. The script is one thread: once run_agent is called
\* it keeps running, each call to the model or to a tool returning or raising.
RunStep ==
    \/ LoopHead
    \/ \E r \in Responses : LLMResponds(r)
    \/ \E e \in CompletionErrors : LLMFails(e)
    \/ Dispatch

\* The script up to the end of its first run. No action reads `earlier`, so
\* every later run goes through the same steps as the first.
FirstRunNext ==
    \/ \E q \in Questions, b \in BOOLEAN : ~earlier /\ Submit(q, b)
    \/ LoopHead
    \/ \E r \in Responses : LLMResponds(r)
    \/ \E e \in CompletionErrors : LLMFails(e)
    \/ Dispatch
    \/ Present

FairSpec == Init /\ [][FirstRunNext]_vars /\ WF_vars(RunStep)

-----------------------------------------------------------------------------
(* Reading the trace of a run *)

\* The positions of the trace holding a call of kind `op`.
Events(op) == { i \in DOMAIN trace : trace[i][1] = op }

\* The completion call at position i returned a response.
CompletionReturned(i) ==
    /\ trace[i][1] = "complete"
    /\ trace[i][3].kind = "return"

\* The completion call at position i raised.
CompletionFailed(i) ==
    /\ trace[i][1] = "complete"
    /\ trace[i][3].kind = "raise"

\* Calls to the model or to a tool.
WorkOps == {"complete", "dispatch", "invoke", "search", "backend"}

\* Position i is the last call of the run: the status is cleared and
\* run_agent returns, and nothing follows.
RunEndsAfter(i, why) ==
    /\ pc = "returned"
    /\ Len(trace) = i + 2
    /\ trace[i + 1] = <<"clear">>
    /\ trace[i + 2] = <<"return", why>>
    /\ \A j \in DOMAIN trace : j > i => trace[j][1] \notin WorkOps

-----------------------------------------------------------------------------
(* C1 *)

\* C1: in every run and every round, when the completion call returns a
\* response without tool calls, run_agent returns exactly the text of that
\* response, and no completion call and no tool dispatch follows in the run.
C1_FinalAnswerEndsRun ==
    \A i \in DOMAIN trace :
        (CompletionReturned(i) /\ trace[i][3].value.tool_calls = <<>>)
        => /\ RunEndsAfter(i, "answer")
           /\ final_answer = [kind |-> "return", value |-> trace[i][3].value.content]

\* A run that searched twice and got its final text in round 3.
C1_Witness ==
    /\ pc = "returned"
    /\ iteration = 3
    /\ Cardinality(Events("backend")) = 2
    /\ CompletionReturned(Len(trace) - 2)
    /\ final_answer.value \in Texts

-----------------------------------------------------------------------------
(* Reading the conversation *)

\* The position of the latest assistant message before position q, or 0.
AssistantBefore(q) ==
    LET ps == { p \in 1..(q - 1) : messages[p].role = "assistant" }
    IN IF ps = {} THEN 0 ELSE CHOOSE p \in ps : \A o \in ps : o <= p

\* The tool call `call` has a tool message with its id after position p.
AnsweredAfter(call, p) ==
    \E q \in DOMAIN messages :
        /\ q > p
        /\ messages[q].role = "tool"
        /\ messages[q].tool_call_id = call.id

\* The assistant message at p is followed by one tool message per tool call,
\* in the order of the calls and with their ids, and by no other tool message.
AnsweredInOrder(p) ==
    LET n == Len(messages[p].tool_calls)
    IN /\ p + n <= Len(messages)
       /\ \A i \in 1..n :
             /\ messages[p + i].role = "tool"
             /\ messages[p + i].tool_call_id = messages[p].tool_calls[i].id
       /\ (p + n < Len(messages) => messages[p + n + 1].role # "tool")

\* No round is under way: the loop is at its head, or the run has returned.
BetweenRounds == pc \in {"loop", "returned"}

-----------------------------------------------------------------------------
(* C2 *)

\* The number of completion calls of the run never exceeds the budget.
AtMostTenCompletions == Cardinality(Events("complete")) <= 10

\* C2: run_agent never makes more than 10 completion calls, and when the
\* response of round 10 still requests tool calls, run_agent returns the
\* fixed exhaustion message.
C2_TenRoundsThenExhaustion ==
    /\ AtMostTenCompletions
    /\ \A i \in DOMAIN trace :
          ( /\ pc = "returned"
            /\ CompletionReturned(i)
            /\ trace[i][2] = 10
            /\ trace[i][3].value.tool_calls # <<>> )
          => final_answer = [kind |-> "return", value |-> ExhaustionMessage]

-----------------------------------------------------------------------------
(* C3 *)

\* C3: for every round that requested tool calls, once the round is over the
\* assistant message of the round is followed by exactly one tool message
\* per ToolCall, in the same order, the i-th with the id of the i-th call.
C3_OneToolMessagePerCall ==
    BetweenRounds =>
        \A p \in DOMAIN messages :
            messages[p].role = "assistant" => AnsweredInOrder(p)

-----------------------------------------------------------------------------
(* C4 *)

\* C4: whenever a completion call is about to be made, every ToolCall of
\* every assistant message of the conversation has a tool message with its
\* id after it; and at all times every tool message carries the id of
\* exactly one ToolCall of the latest assistant message before it.
C4_CallsAnsweredBeforeCompletion ==
    /\ pc = "invoke" =>
          \A p \in DOMAIN messages :
              \A i \in DOMAIN messages[p].tool_calls :
                  AnsweredAfter(messages[p].tool_calls[i], p)
    /\ \A q \in DOMAIN messages :
          messages[q].role = "tool" =>
              LET p == AssistantBefore(q)
              IN /\ p > 0
                 /\ Cardinality({ i \in DOMAIN messages[p].tool_calls :
                        messages[p].tool_calls[i].id = messages[q].tool_call_id }) = 1

\* A completion call is about to be made in round 3, after a round that
\* requested two tool calls.
C4_Witness ==
    /\ pc = "invoke"
    /\ iteration = 3
    /\ \E p \in DOMAIN messages : Len(messages[p].tool_calls) = 2

-----------------------------------------------------------------------------
(* C5 *)

\* The tool call dispatched at position i of the trace has an unknown name.
UnknownDispatch(i) ==
    /\ trace[i][1] = "dispatch"
    /\ trace[i][2].name # "tavily_search"

\* The tool call `call` has been dispatched.
Dispatched(call) ==
    \E j \in DOMAIN trace : trace[j] = <<"dispatch", call>>

\* C5: dispatching a ToolCall with an unknown name appends the tool message
\* "Unknown tool: <name>" with the id of the call and invokes no tool; and
\* the loop is not aborted: by the end of the run every tool call of that
\* round has been dispatched, and the completion call of the next round has
\* been made if the round was not the last of the budget.
C5_UnknownToolGoesOn ==
    \A i \in DOMAIN trace :
        UnknownDispatch(i) =>
            LET call == trace[i][2]
                round == call.id[1]
            IN /\ \E q \in DOMAIN messages :
                      messages[q] = ToolMessage(UnknownToolText(call.name), call.id)
               /\ \A j \in DOMAIN trace :
                      trace[j][1] \in {"invoke", "search", "backend"} => trace[j][2] # call.id
               /\ pc = "returned" =>
                      /\ \A c \in DOMAIN trace :
                            (CompletionReturned(c) /\ trace[c][2] = round) =>
                                \A k \in DOMAIN trace[c][3].value.tool_calls :
                                    Dispatched(trace[c][3].value.tool_calls[k])
                      /\ round < 10 =>
                            \E c \in Events("complete") : trace[c][2] = round + 1

-----------------------------------------------------------------------------
(* C6 *)

\* C6: when the completion call of a round raises, run_agent aborts at once:
\* that call is the only completion call of the round and the last call of
\* the run (no tool dispatch, no later round), and the value returned is the
\* string "Error during processing: " followed by the error's description.
C6_CompletionFailureAborts ==
    \A i \in DOMAIN trace :
        CompletionFailed(i) =>
            /\ RunEndsAfter(i, "error")
            /\ Cardinality({ c \in Events("complete") : trace[c][2] = trace[i][2] }) = 1
            /\ \A d \in Events("dispatch") : trace[d][2].id[1] # trace[i][2]
            /\ final_answer = [kind |-> "return",
                               value |-> "Error during processing: " \o trace[i][3].value]
            /\ final_answer.value \in STRING

\* The completion call of round 3 raised and the run has returned.
C6_Witness ==
    /\ pc = "returned"
    /\ iteration = 3
    /\ CompletionFailed(Len(trace) - 2)

-----------------------------------------------------------------------------
(* C7 *)

\* In the trace tr, the run returned from within the dispatch at position i.
ReturnedFromDispatchIn(tr, i) ==
    \E j \in DOMAIN tr :
        /\ j > i
        /\ tr[j] = <<"clear">>
        /\ j < Len(tr)
        /\ tr[j + 1] = <<"return", "error">>
        /\ \A k \in (i + 1)..(j - 1) : tr[k][1] \in {"invoke", "search", "backend"}

ReturnedFromDispatch(i) == ReturnedFromDispatchIn(trace, i)

\* C7: every dispatched ToolCall, whatever its name and arguments and
\* whatever the backend does, yields a text that is appended as the tool
\* message of the call, and run_agent does not return from the dispatch.
C7_DispatchIsTotal ==
    \A i \in Events("dispatch") :
        /\ \E q \in DOMAIN messages :
              /\ messages[q].role = "tool"
              /\ messages[q].tool_call_id = trace[i][2].id
              /\ messages[q].content \in STRING
        /\ ~ReturnedFromDispatch(i)

-----------------------------------------------------------------------------
(* C8 *)

\* C8: without the search credential the tool catalog bound to the model is
\* empty and, whatever the model returns, the search backend is never called.
C8_NoBackendWithoutCredential ==
    ~tavily_available =>
        /\ tools = <<>>
        /\ Events("backend") = {}

\* Without the credential, the model asked for a search all the same and
\* the tool body ran.
C8_Witness ==
    /\ ~tavily_available
    /\ pc = "returned"
    /\ Events("search") # {}

-----------------------------------------------------------------------------
(* C9 *)

Running == pc \in {"loop", "invoke", "dispatch"}

\* C9: every run of run_agent ends, and ends by returning a string: no
\* exception leaves run_agent, whatever the model and the tools return or
\* raise.
C9_RunTerminates ==
    /\ [](final_answer.kind # "raise")
    /\ [](pc = "returned" => final_answer.kind = "return" /\ final_answer.value \in STRING)
    /\ Running ~> (pc = "returned")

\* A run that ended in round 2 because a tool invocation raised.
C9_Witness ==
    /\ pc = "returned"
    /\ iteration = 2
    /\ trace[Len(trace)] = <<"return", "error">>
    /\ trace[Len(trace) - 2][1] = "invoke"

-----------------------------------------------------------------------------
(* C10 *)

\* The state of the run in the terms of the state machine.
AgentState ==
    CASE pc \in {"loop", "invoke"} -> "AWAITING_MODEL"
      [] pc = "dispatch" -> "DISPATCHING_TOOLS"
      [] pc = "returned" ->
            IF trace[Len(trace)] = <<"return", "exhausted">> THEN "EXHAUSTED" ELSE "DONE"
      [] OTHER -> "NO_RUN"

\* The position of the last assistant message of the conversation.
LastAssistant == AssistantBefore(Len(messages) + 1)

\* The transitions of the state machine as the spec lists them.
ListedTransition ==
    LET s == AgentState
        t == AgentState'
    IN \/ /\ s = "AWAITING_MODEL" /\ t = "DONE"
          /\ CompletionReturned(Len(trace) - 2)'
          /\ response'.tool_calls = <<>>
       \/ /\ s = "AWAITING_MODEL" /\ t = "DISPATCHING_TOOLS"
          /\ response'.tool_calls # <<>>
       \/ /\ s = "DISPATCHING_TOOLS" /\ t = "AWAITING_MODEL"
          /\ AnsweredInOrder(LastAssistant)'
       \/ /\ s = "AWAITING_MODEL" /\ t = "EXHAUSTED"
          /\ iteration = 10

\* The transitions by which an exception ends the run.
ErrorTransition ==
    LET s == AgentState
        t == AgentState'
    IN \/ /\ s = "AWAITING_MODEL" /\ t = "DONE"
          /\ CompletionFailed(Len(trace) - 2)'
       \/ /\ s = "DISPATCHING_TOOLS" /\ t = "DONE"
          /\ trace'[Len(trace')] = <<"return", "error">>
          /\ ReturnedFromDispatchIn(trace', Len(trace) + 1)

\* The run is left (the script shows the result), which is no transition of
\* the state machine; outside a run only a new run can start.
OutsideRun ==
    \/ AgentState \in {"DONE", "EXHAUSTED"} /\ AgentState' = "NO_RUN"
    \/ AgentState = "NO_RUN" /\ AgentState' = "AWAITING_MODEL"

\* C10 as stated: the run moves between AWAITING_MODEL, DISPATCHING_TOOLS,
\* DONE and EXHAUSTED only by the listed transitions, and DONE and EXHAUSTED
\* have no outgoing transition.
C10_OnlyListedTransitions ==
    [][AgentState' # AgentState => (ListedTransition \/ OutsideRun)]_vars

\* C10 amended: the listed transitions and the two by which an exception
\* ends the run are the only ones; DONE and EXHAUSTED have none.
C10_Transitions ==
    [][AgentState' # AgentState => (ListedTransition \/ ErrorTransition \/ OutsideRun)]_vars

\* A run that is DONE because a tool invocation raised in round 2, after a
\* round whose calls were all answered.
C10_Witness ==
    /\ AgentState = "DONE"
    /\ iteration = 2
    /\ trace[Len(trace)] = <<"return", "error">>
    /\ Events("dispatch") # {}
    /\ ReturnedFromDispatch(Len(trace) - 3)

-----------------------------------------------------------------------------
(* C11 *)

\* run_agent has been called and the script has not shown its result yet.
InRun == pc \in {"loop", "invoke", "dispatch", "returned"}

\* The tool calls requested by the completion calls of the run so far.
RequestedCalls ==
    { <<c, k>> \in (DOMAIN trace) \X (1..(MaxVaried + 1)) :
        /\ CompletionReturned(c)
        /\ k <= Len(trace[c][3].value.tool_calls) }

\* What the conversation of a run looks like at any moment.
ConversationShape ==
    InRun =>
        /\ Len(messages) >= 2
        /\ messages[1] = SystemMessage(system_message)
        /\ messages[2] = HumanMessage(user_question)
        /\ (pc = "loop" /\ iteration = 0) => Len(messages) = 2
        /\ \A p \in DOMAIN messages :
              p > 2 => \/ messages[p].role = "tool"
                       \/ messages[p].role = "assistant" /\ messages[p].tool_calls # <<>>
        /\ pc = "invoke" =>
              Len(messages) = 2 + (iteration - 1) + Cardinality(RequestedCalls)

\* A step of a run leaves the conversation as it is or appends one message
\* to it: the assistant message of the round, or a tool message.
AppendOnlyStep ==
    (InRun /\ InRun') =>
        \/ messages' = messages
        \/ /\ Len(messages') = Len(messages) + 1
           /\ SubSeq(messages', 1, Len(messages)) = messages
           /\ \/ messages'[Len(messages')].role = "tool"
              \/ /\ messages'[Len(messages')] = AIMessage(response')
                 /\ response'.tool_calls # <<>>

\* C11: the conversation of a run starts as [system message, user message =
\* question]; every step keeps the messages it has as a prefix and appends
\* only an assistant message carrying tool calls or a tool message; a final
\* answer is never appended; and the conversation sent to the completion call
\* of round k+1 has length 2 + k + n_1 + ... + n_k.
C11_ConversationAppendOnly ==
    /\ []ConversationShape
    /\ [][AppendOnlyStep]_vars

\* The completion call of round 2 is about to get the four messages left by
\* one round with one tool call.
C11_Witness ==
    /\ pc = "invoke"
    /\ iteration = 2
    /\ Len(messages) = 4
    /\ messages[3].role = "assistant"
    /\ messages[4].role = "tool"

-----------------------------------------------------------------------------
(* C12 *)

\* The result of the completion call of round n.
CompletionOf(n) ==
    trace[CHOOSE i \in Events("complete") : trace[i][2] = n][3]

\* The calls that dispatching `call` makes, by its name and arguments alone.
CallEvents(call) ==
    << <<"dispatch", call>> >> \o
    (IF call.name # "tavily_search" THEN <<>>
     ELSE << <<"invoke", call.id>> >> \o
          (IF ~ArgsValid(call.args) THEN <<>>
           ELSE << <<"search", call.id>> >> \o
                (IF tavily_available THEN << <<"backend", call.id>> >> ELSE <<>>)))

CallRaises(call) == call.name = "tavily_search" /\ ~ArgsValid(call.args)

\* The calls made for the tool calls `calls` from the k-th on.
RECURSIVE CallsEvents(_, _)
CallsEvents(calls, k) ==
    IF k > Len(calls) THEN <<>>
    ELSE CallEvents(calls[k]) \o
         (IF CallRaises(calls[k]) THEN <<>> ELSE CallsEvents(calls, k + 1))

\* The trace from round n on that the results of the m completion calls of a
\* run determine; the status sink is no input of it.
RECURSIVE ExpectedFrom(_, _)
ExpectedFrom(n, m) ==
    IF n > max_iterations THEN << <<"clear">>, <<"return", "exhausted">> >>
    ELSE IF n > m THEN << <<"unfinished">> >>
    ELSE LET r == CompletionOf(n)
         IN << <<"status", n>>, <<"complete", n, r>> >> \o
            (IF r.kind = "raise" THEN << <<"clear">>, <<"return", "error">> >>
             ELSE IF r.value.tool_calls = <<>>
                  THEN << <<"clear">>, <<"return", "answer">> >>
                  ELSE CallsEvents(r.value.tool_calls, 1) \o
                       (IF \E k \in DOMAIN r.value.tool_calls :
                              CallRaises(r.value.tool_calls[k])
                        THEN << <<"clear">>, <<"return", "error">> >>
                        ELSE ExpectedFrom(n + 1, m)))

\* The value that the results of the m completion calls of a run determine.
ExpectedValue(m) ==
    LET why == trace[Len(trace)][2]
        r == CompletionOf(m)
    IN CASE why = "answer" -> r.value.content
         [] why = "exhausted" -> ExhaustionMessage
         [] why = "error" /\ r.kind = "raise" -> "Error during processing: " \o r.value
         [] OTHER -> "Error during processing: " \o ValidationError

\* The progress writes so far: one per round started, numbered 1, 2, ... in
\* order, each before the completion call of its round and after the calls
\* of the round before; and the sink shows the text of the current round.
ProgressOncePerRound ==
    LET st == Events("status")
    IN /\ Cardinality(st) = iteration
       /\ \A i \in st : trace[i][2] \in 1..iteration
       /\ \A i \in st, j \in st : i < j => trace[i][2] < trace[j][2]
       /\ \A c \in Events("complete") :
             c > 1 /\ trace[c - 1] = <<"status", trace[c][2]>>
       /\ (pc \in {"invoke", "dispatch"} \/ (pc = "loop" /\ iteration > 0))
             => status = ProgressText(iteration)

\* C12: the status sink gets "Processing... Iteration N" exactly once per
\* round, N being the number of the round, before the completion call of the
\* round; and the writes do not steer the run: the calls made and the value
\* returned are those that the model's responses and the tools determine.
C12_StatusOncePerRoundNoEffect ==
    InRun =>
        /\ ProgressOncePerRound
        /\ pc = "returned" =>
              LET m == Cardinality(Events("complete"))
              IN /\ trace = ExpectedFrom(1, m)
                 /\ m > 0 => final_answer = [kind |-> "return", value |-> ExpectedValue(m)]

\* A run of four rounds has returned its answer; one round dispatched an
\* unknown tool.
C12_Witness ==
    /\ pc = "returned"
    /\ Cardinality(Events("status")) = 4
    /\ trace[Len(trace)] = <<"return", "answer">>
    /\ \E i \in DOMAIN trace : UnknownDispatch(i)

-----------------------------------------------------------------------------
(* C13 *)

Warning == "Please enter a question"

\* C13 as stated: whatever the button holds, a rerun of the script on an
\* empty question starts no run and shows the warning.
C13_EmptyQuestionWarns ==
    [][(pc = "idle" /\ user_question' = "")
          => (pc' = "idle" /\ trace' = <<>> /\ display' = Warning)]_vars

\* C13 amended: a run is on only for a pressed button and a non-empty
\* question, which is the question the run was given; a rerun of the script
\* that starts no run shows the warning when the button was pressed, and
\* nothing when it was not.
C13_RunOnlyOnPressedNonEmpty ==
    /\ InRun =>
          /\ search_button
          /\ user_question # ""
          /\ messages[2] = HumanMessage(user_question)
    /\ (pc = "idle" /\ search_button /\ user_question = "") =>
          display = Warning /\ trace = <<>> /\ messages = <<>>
    /\ (pc = "idle" /\ ~search_button) =>
          display = "" /\ trace = <<>> /\ messages = <<>>
    /\ (pc = "idle" /\ display = Warning) => user_question = ""

\* After a run has been shown, the button is pressed on an empty input.
C13_Witness ==
    pc = "idle" /\ earlier /\ search_button /\ user_question = "" /\ display = Warning

-----------------------------------------------------------------------------
(* C14 *)

\* C14: a run starts from the system message and its own question alone:
\* the conversation as the run begins, and as its first completion call
\* receives it, holds nothing of the runs before.
C14_RunStartsFresh ==
    ((pc = "loop" /\ iteration = 0) \/ (pc = "invoke" /\ iteration = 1)) =>
        messages = <<SystemMessage(system_message), HumanMessage(user_question)>>

\* The first completion call of a later run, after an earlier run has been
\* shown.
C14_Witness ==
    /\ earlier
    /\ pc = "invoke"
    /\ iteration = 1
    /\ Len(messages) = 2

-----------------------------------------------------------------------------
(* C15 *)

FallbackText ==
    "Tavily search is not available. Please set the TAVILY_API_KEY environment variable."

\* C15 as stated: without the credential the search tool is never invoked,
\* whatever the model returns, so its body and the fallback are never reached.
C15_SearchNeverInvokedWithoutCredential ==
    ~tavily_available =>
        /\ Events("invoke") = {}
        /\ Events("search") = {}

\* C15 amended: without the credential the catalog is empty, but a response
\* that names the search tool is dispatched to it all the same; the body
\* then takes its fallback, and the tool message of the call carries the
\* fallback text.
C15_FallbackAnswersWithoutCredential ==
    ~tavily_available =>
        /\ tools = <<>>
        /\ \A i \in Events("search") :
              \E q \in DOMAIN messages :
                 /\ messages[q] = ToolMessage(FallbackText, trace[i][2])
                 /\ \A j \in Events("backend") : trace[j][2] # trace[i][2]
        /\ \A i \in Events("dispatch") :
              (trace[i][2].name = "tavily_search" /\ ArgsValid(trace[i][2].args))
                 => \E j \in Events("search") : trace[j][2] = trace[i][2].id

\* Without the credential, the second completion call gets the fallback
\* text as the result of the search the first response asked for.
C15_Witness ==
    /\ ~tavily_available
    /\ pc = "invoke"
    /\ iteration = 2
    /\ Len(messages) = 4
    /\ messages[4].content = FallbackText

-----------------------------------------------------------------------------
(* C16 *)

\* The dispatches between positions a and b of the trace, b included.
DispatchesIn(a, b) == { d \in Events("dispatch") : a < d /\ d <= b }

\* The dispatch at position d belongs to the completion call at position c:
\* no other round started in between.
RoundOfDispatch(c, d) ==
    /\ c < d
    /\ CompletionReturned(c)
    /\ \A j \in (c + 1)..(d - 1) : trace[j][1] \notin {"status", "complete"}

\* C16: each round makes exactly one completion call, before every tool
\* dispatch of the round; the dispatches of a round are those of the tool
\* calls of its response, one at a time and in the order of the response,
\* and all of them are over before the completion call of the next round.
C16_OneCompletionThenDispatchesInOrder ==
    InRun =>
        LET comp == Events("complete")
            disp == Events("dispatch")
            RoundAt(c) == trace[c][2]
            Between(c, e) == { d \in disp : c < d /\ d <= e }
        IN /\ Cardinality(comp) = (IF pc = "invoke" THEN iteration - 1 ELSE iteration)
           /\ \A c \in comp : RoundAt(c) \in 1..iteration
           /\ \A c \in comp, e \in comp : c < e => RoundAt(c) < RoundAt(e)
           /\ \A d \in disp :
                 \E c \in comp :
                    /\ RoundOfDispatch(c, d)
                    /\ LET calls == trace[c][3].value.tool_calls
                           k == Cardinality(Between(c, d))
                       IN k <= Len(calls) /\ trace[d][2] = calls[k]
           /\ \A i \in DOMAIN trace :
                 trace[i][1] \in {"invoke", "search", "backend"} =>
                    \E d \in disp :
                       /\ d < i
                       /\ trace[d][2].id = trace[i][2]
                       /\ \A j \in (d + 1)..(i - 1) : trace[j][1] # "dispatch"
           /\ \A e \in comp :
                 RoundAt(e) > 1 =>
                    \E c \in comp :
                       /\ RoundAt(c) = RoundAt(e) - 1
                       /\ c < e
                       /\ Cardinality(Between(c, e)) = Len(trace[c][3].value.tool_calls)
                       /\ \A d \in Between(c, e) :
                             \E q \in DOMAIN messages :
                                /\ messages[q].role = "tool"
                                /\ messages[q].tool_call_id = trace[d][2].id

\* The third response is about to be dispatched; the two rounds before
\* dispatched three tool calls between them.
C16_Witness ==
    /\ pc = "dispatch"
    /\ iteration = 3
    /\ idx = 1
    /\ Cardinality(Events("complete")) = 3
    /\ Cardinality(Events("dispatch")) = 3

-----------------------------------------------------------------------------
(* C17 *)

Exhausted == pc = "returned" /\ trace[Len(trace)] = <<"return", "exhausted">>

\* C17: the exhaustion message is returned only after exactly 10 completion
\* calls; every tool call of the tenth response has been dispatched and its
\* tool message appended before the return, and no completion call receives
\* these results.
C17_ExhaustionAfterTenRounds ==
    /\ (pc = "returned" /\ final_answer.value = ExhaustionMessage) => Exhausted
    /\ Exhausted =>
          /\ final_answer = [kind |-> "return", value |-> ExhaustionMessage]
          /\ Cardinality(Events("complete")) = 10
          /\ \E c \in Events("complete") :
                /\ trace[c][2] = 10
                /\ CompletionReturned(c)
                /\ \A e \in Events("complete") : e <= c
                /\ LET calls == trace[c][3].value.tool_calls
                       n == Len(calls)
                   IN /\ n > 0
                      /\ Cardinality(DispatchesIn(c, Len(trace))) = n
                      /\ \A d \in DispatchesIn(c, Len(trace)) :
                            \E k \in 1..n : trace[d][2] = calls[k]
                      /\ Len(messages) > n
                      /\ messages[Len(messages) - n] = AIMessage(trace[c][3].value)
                      /\ \A k \in 1..n :
                            /\ messages[Len(messages) - n + k].role = "tool"
                            /\ messages[Len(messages) - n + k].tool_call_id = calls[k].id

\* The budget is spent: the tenth response asked for two tool calls, both
\* were dispatched, and the exhaustion message is returned.
C17_Witness ==
    /\ Exhausted
    /\ Len(response.tool_calls) = 2
    /\ messages[Len(messages)].tool_call_id = <<10, 2>>

-----------------------------------------------------------------------------
(* C18 *)

\* C18: on every return path the status sink is cleared exactly once, after
\* the last progress write and just before the return, so that no progress
\* text is left on the page once the run is over.
C18_StatusClearedOnReturn ==
    /\ pc \in {"loop", "invoke", "dispatch"} => Events("clear") = {}
    /\ pc = "returned" =>
          /\ Len(trace) >= 4
          /\ trace[Len(trace)][1] = "return"
          /\ Events("return") = {Len(trace)}
          /\ Events("clear") = {Len(trace) - 1}
          /\ Events("status") # {}
          /\ \A i \in Events("status") : i < Len(trace) - 1
          /\ status = ""
    /\ pc = "idle" => status = ""

\* The run was ended in its second round by a search call whose arguments
\* the tool refused; the sink is empty.
C18_Witness ==
    /\ pc = "returned"
    /\ iteration = 2
    /\ trace[Len(trace)] = <<"return", "error">>
    /\ trace[Len(trace) - 2][1] = "invoke"
    /\ status = ""

====
